---- MODULE Spec2Model ----
(***************************************************************************)
(* KANADEV (src/KANADEV.py): a kana learning game.  The model covers the   *)
(* progress store (load_progress / save_progress), the weighted practice   *)
(* selector (choice_weight, Quiz.weighted_pick, TypeMode._pick), the four  *)
(* scenes (Menu, Flashcards, Quiz, TypeMode) and the main loop (App.run).  *)
(*                                                                         *)
(* Representation.                                                         *)
(*  - A kana glyph is a sequence of characters; characters are written in  *)
(*    ASCII: "h_a" is HIRAGANA A, "h_ki" KI, "h_zi" ZI (romaji ji), "h_di" *)
(*    DI (romaji ji), "h_ya" small YA; "k_..." are the katakana ones.  A   *)
(*    combined kana is a sequence of two characters: <<"h_ki", "h_ya">>.   *)
(*  - Romaji and typed text are sequences of one-letter strings.           *)
(*  - Weights and draws are kept in thousandths: choice_weight(m) is 1000  *)
(*    times the float the code computes, so (6-m)^2 + 0.01 is              *)
(*    (6-m)^2*1000 + 10, and every candidate's part of the draw range      *)
(*    holds a draw of the model.                                           *)
(*  - None (and the empty string, which Python treats alike in `not x`)    *)
(*    is the empty sequence.                                               *)
(*  - Widget rectangles are abstracted to `drawn`: a label's rectangle is  *)
(*    None until the scene's draw has run once.                            *)
(*  - Fields that only feed rendering (feedback, feedback_timer, round,    *)
(*    hover, cursor) are not modelled.                                     *)
(***************************************************************************)
EXTENDS Integers, Sequences, FiniteSets, TLC

VARIABLES
    running,      \* App.running
    pc,           \* position of App.run: "events", "done" (loop left), "crashed"
    error,        \* the uncaught exception that ended the run, or "none"
    script_name,  \* App.script_name
    table,        \* App.table
    progress,     \* App.progress
    scene,        \* App.scene: a record whose cls names the scene class
    WORDS,        \* module global WORDS
    file,         \* the contents of kanadev_progress.json
    disk,         \* the condition of the storage the file is written to
    last,         \* history: the answer handled by the last step, if any
    hist,         \* history: answers counted, loaded best score, streak peaks,
                  \* whether save_progress has been called
    pin,          \* selector harness: the inputs of a selector call
    pout          \* selector harness: the outputs of that call

vars == <<running, pc, error, script_name, table, progress, scene, WORDS,
          file, disk, last, hist, pin, pout>>

appvars == <<running, pc, error, script_name, table, progress, scene, WORDS,
             file, disk, last, hist>>

(***************************************************************************)
(* Bounds of the model.                                                    *)
(***************************************************************************)
\* a run is followed up to its MaxAnswers-th answer (a Quiz choice or a
\* TypeMode submission)
MaxAnswers == 2

\* the lines a user types in TypeMode; a key is typed only while the text
\* stays a prefix of one of them
TypedLines == { <<"a">>, <<"J", " ", "i">> }

(***************************************************************************)
(* Kana tables: entries of HIRAGANA and KATAKANA in source order.  The     *)
(* model keeps, per script, a basic kana outside every combo string (A),   *)
(* the two voiced kana that share the romaji "ji" (ZI, the first character *)
(* of a combo, and DI) and two combos (KYA, JA).                           *)
(***************************************************************************)
HIRAGANA ==
    << [kana |-> <<"h_a">>,          romaji |-> <<"a">>],
       [kana |-> <<"h_zi">>,         romaji |-> <<"j", "i">>],
       [kana |-> <<"h_di">>,         romaji |-> <<"j", "i">>],
       [kana |-> <<"h_ki", "h_ya">>, romaji |-> <<"k", "y", "a">>],
       [kana |-> <<"h_zi", "h_ya">>, romaji |-> <<"j", "a">>] >>

KATAKANA ==
    << [kana |-> <<"k_a">>,          romaji |-> <<"a">>],
       [kana |-> <<"k_zi">>,         romaji |-> <<"j", "i">>],
       [kana |-> <<"k_di">>,         romaji |-> <<"j", "i">>],
       [kana |-> <<"k_ki", "k_ya">>, romaji |-> <<"k", "y", "a">>],
       [kana |-> <<"k_zi", "k_ya">>, romaji |-> <<"j", "a">>] >>

Scripts == {"hiragana", "katakana"}

\* list(table.keys())
Keys(t) == [i \in 1..Len(t) |-> t[i].kana]

\* kana in table
InTable(t, k) == \E i \in 1..Len(t) : t[i].kana = k

\* table[kana]
Lookup(t, k) == t[CHOOSE i \in 1..Len(t) : t[i].kana = k].romaji

AllKana == {HIRAGANA[i].kana : i \in 1..Len(HIRAGANA)}
               \cup {KATAKANA[i].kana : i \in 1..Len(KATAKANA)}

Min(a, b) == IF a <= b THEN a ELSE b
Max(a, b) == IF a >= b THEN a ELSE b

\* max(1, min(10, x))
Clamp(x) == Max(1, Min(10, x))

\* prog.get(kana, 1)
Get(prog, k) == IF k \in DOMAIN prog THEN prog[k] ELSE 1

\* the assignment writing v to every entry of the dict
Put_resets_others(prog, k, v) == [x \in (DOMAIN prog) \cup {k} |-> v]

\* d[k] = v on a dict
Put(prog, k, v) == [x \in (DOMAIN prog) \cup {k} |-> IF x = k THEN v ELSE prog[x]]

RECURSIVE SeqSum(_)
SeqSum(s) == IF s = <<>> THEN 0 ELSE Head(s) + SeqSum(Tail(s))

\* random.shuffle(s): the lists a shuffle of s may leave, every order of its
\* elements
Shuffles(s) == {[i \in 1..Len(s) |-> s[p[i]]] : p \in Permutations(1..Len(s))}

(***************************************************************************)
(* Persistence.  A stored number is [kind, h]: kind "int" or "float" with  *)
(* h the value in hundredths, or kind "bad" for a value int() rejects.     *)
(* A file is [exists, parses, data], data a JSON object as a function.     *)
(***************************************************************************)
IntVal(n) == [kind |-> "int", h |-> 100 * n]
FloatVal(h) == [kind |-> "float", h |-> h]
BadVal == [kind |-> "bad", h |-> 0]

\* int(x) of a float given in hundredths: truncation toward zero
TruncHundredths(h) == IF h >= 0 THEN h \div 100 ELSE -((-h) \div 100)

\* the fraction rounded without the scaling by ten
RoundTimesTen_unscaled(h) == (h + 50) \div 100

\* int(round(v * 10)) of a float v given in hundredths: round half to even
RoundTimesTen(h) ==
    LET q == h \div 10
        r == h % 10
    IN  IF r > 5 \/ (r = 5 /\ q % 2 = 1) THEN q + 1 ELSE q

\* line 138: the value a stored mastery is converted to
ConvertMastery(v) ==
    Clamp(IF v.kind = "float" /\ v.h <= 100 THEN RoundTimesTen(v.h)
          ELSE TruncHundredths(v.h))

DefaultProgress ==
    [hiragana |-> <<>>, katakana |-> <<>>,
     best_score |-> [hiragana |-> 0, katakana |-> 0]]

\* a load that drops the stored mastery maps
LoadScript_dropped(data, s) == <<>>

\* data.setdefault(script, {}) followed by the conversion loop
LoadScript(data, s) ==
    IF s \in DOMAIN data
    THEN [k \in DOMAIN data[s] |-> ConvertMastery(data[s][k])]
    ELSE <<>>

\* a load that forgets the stored best scores
LoadBest_reset(data) == [s \in Scripts |-> 0]

\* lines 140-143: best_score with its missing parts defaulted to 0
LoadBest(data) ==
    [s \in Scripts |->
        IF "best_score" \in DOMAIN data /\ s \in DOMAIN data["best_score"]
        THEN data["best_score"][s] ELSE 0]

\* a value on which the conversion raises, which the except clause catches
LoadRaises(data) ==
    \E s \in Scripts \cap DOMAIN data :
        \E k \in DOMAIN data[s] : data[s][k].kind = "bad"

load_progress(f) ==
    IF f.exists /\ f.parses /\ ~LoadRaises(f.data)
    THEN [hiragana   |-> LoadScript(f.data, "hiragana"),
          katakana   |-> LoadScript(f.data, "katakana"),
          best_score |-> LoadBest(f.data)]
    ELSE DefaultProgress

\* json.dump(progress): the object written for an in-memory progress
Dump(p) ==
    [key \in {"hiragana", "katakana", "best_score"} |->
        IF key = "best_score" THEN p.best_score
        ELSE [k \in DOMAIN p[key] |-> IntVal(p[key][k])]]

\* a save_progress that writes nothing
save_progress_skipped(p, f, d) == f

\* save_progress: on a disk that is "ok" the file is written; on a
\* "readonly" one open() raises and the file stays as it was; on a "full"
\* one open() truncates the file and json.dump raises, leaving an
\* unparsable file.  The exception is swallowed in every case.
DiskStates == {"ok", "readonly", "full"}
save_progress(p, f, d) ==
    CASE d = "ok"       -> [exists |-> TRUE, parses |-> TRUE, data |-> Dump(p)]
      [] d = "readonly" -> f
      [] d = "full"     -> [exists |-> TRUE, parses |-> FALSE, data |-> <<>>]

\* a save_progress without its except clause: the OSError of a failed write
\* reaches the caller
save_error_uncaught(d) == IF d = "ok" THEN "none" ELSE "OSError"

\* the exception save_progress lets out to its caller: `except Exception:
\* pass` swallows whatever open() and json.dump raise
save_error(d) == "none"

\* the position of App.run after a call that let out the exception e
AfterCall(e, at) == IF e = "none" THEN at ELSE "crashed"

(***************************************************************************)
(* Weighted practice selector.                                             *)
(***************************************************************************)
\* (6 - mastery) ** 2 + 0.01, in thousandths
choice_weight(mastery) == (6 - mastery) * (6 - mastery) * 1000 + 10

\* items = [(k, choice_weight(int(prog.get(k, 1)))) for k in kana_list]
Items(kana_list, prog) ==
    [i \in 1..Len(kana_list) |->
        [k |-> kana_list[i], w |-> choice_weight(Get(prog, kana_list[i]))]]

\* total = sum(w for _, w in items)
Total(items) == SeqSum([i \in 1..Len(items) |-> items[i].w])

\* the loop with `r < acc` for `r <= acc`
RECURSIVE PickLoop_strict(_, _, _, _)
PickLoop_strict(items, i, acc, r) ==
    IF i > Len(items) THEN <<>>
    ELSE IF r < acc + items[i].w THEN items[i].k
         ELSE PickLoop_strict(items, i + 1, acc + items[i].w, r)

\* the loop `for k, w in items: acc += w; if r <= acc: return k`, from item i
\* with acc accumulated so far; <<>> when the loop ends without returning
RECURSIVE PickLoop(_, _, _, _)
PickLoop(items, i, acc, r) ==
    IF i > Len(items) THEN <<>>
    ELSE IF r <= acc + items[i].w THEN items[i].k
         ELSE PickLoop(items, i + 1, acc + items[i].w, r)

\* Quiz.weighted_pick on a non-empty filtered list, for the draw r
\* (r = random.random() * total, in thousandths)
weighted_pick(kana_list, prog, r) ==
    LET items == Items(kana_list, prog)
        hit == PickLoop(items, 1, 0, r)
    IN  IF hit # <<>> THEN hit ELSE items[Len(items)].k

\* TypeMode._pick for the draw x; None for an empty kana_list
_pick(kana_list, prog, x) ==
    LET items == Items(kana_list, prog)
        hit == PickLoop(items, 1, 0, x)
    IN  IF hit # <<>> THEN hit
        ELSE IF items # <<>> THEN items[Len(items)].k ELSE <<>>

\* cumulative weight of the first i items
Cum(items, i) == SeqSum([j \in 1..i |-> items[j].w])

\* r = random.random() * total: the draws of the model from [0, total) are
\* 0, every cumulative weight below the total and the value just above it,
\* and the largest draw; each candidate's range (Cum(i-1), Cum(i)] holds one
Draws(items) ==
    LET total == Total(items)
    IN  {r \in {0, total - 1}
                \cup {Cum(items, i) : i \in 1..Len(items)}
                \cup {Cum(items, i) + 1 : i \in 1..Len(items)} :
            0 <= r /\ r < total}

(***************************************************************************)
(* Kana group filters (Quiz, Flashcards and TypeMode define the same       *)
(* three).  `kana in list("...")` tests the glyph against the single       *)
(* characters of the string.                                               *)
(***************************************************************************)
BasicChars == {"h_a", "h_ki", "k_a", "k_ki"}
DakuChars  == {"h_zi", "h_di", "k_zi", "k_di"}
\* the characters of the combo strings: KI, small YA, ZI, ... in both scripts
ComboChars == {"h_ki", "h_ya", "h_zi", "k_ki", "k_ya", "k_zi"}

InList(kana, chars) == \E c \in chars : kana = <<c>>

_is_basic(kana) == InList(kana, BasicChars)
_is_daku(kana)  == InList(kana, DakuChars)
_is_combo(kana) == InList(kana, ComboChars)
_is_word(kana)  == FALSE

\* any(f(k) for f in filters), filters the selected ones of the first three
AnyFilter(sel, k) ==
    \/ sel[1] /\ _is_basic(k)
    \/ sel[2] /\ _is_daku(k)
    \/ sel[3] /\ _is_combo(k)

\* _filtered_kana of Quiz, Flashcards and TypeMode (which looks at [:3])
_filtered_kana(sel, t) ==
    IF ~(sel[1] \/ sel[2] \/ sel[3]) THEN <<>>
    ELSE LET Keep(k) == AnyFilter(sel, k) IN SelectSeq(Keys(t), Keep)

\* any(self.selected_groups)
AnySelected(sel) == \E i \in 1..Len(sel) : sel[i]

\* the toggle of group i (1-based)
ToggleGroup(sel, i) == [sel EXCEPT ![i] = ~sel[i]]

(***************************************************************************)
(* Quiz.pick_question                                                      *)
(***************************************************************************)
\* list(s) for list(set(s)): repeated values are kept
Dedup_keep(s) == {s}

\* the distinct values of s, in the order of their first occurrence
RECURSIVE Distinct(_)
Distinct(s) ==
    IF s = <<>> THEN <<>>
    ELSE LET rest == Distinct(SubSeq(s, 1, Len(s) - 1))
             x == s[Len(s)]
         IN  IF \E i \in 1..Len(rest) : rest[i] = x THEN rest ELSE Append(rest, x)

\* list(set(s)): the lists it may return, the distinct values of s in any
\* order (a set of strings iterates in the order of the process's hashing)
Dedup(s) == Shuffles(Distinct(s))

\* s[:n]
Take(s, n) == SubSeq(s, 1, Min(n, Len(s)))

\* opts.index(x), 0-based
IndexOf(s, x) == (CHOOSE i \in 1..Len(s) : s[i] = x /\ \A j \in 1..(i - 1) : s[j] # x) - 1

\* weighted_pick without the branch `if not kana_list`: for an empty
\* filtered list the loop never returns and there is no last item
QuizPicks_no_fallback(sel, t, prog) ==
    LET kana_list == _filtered_kana(sel, t)
    IN  IF kana_list = <<>> THEN {<<>>}
        ELSE {weighted_pick(kana_list, prog, r) :
                  r \in Draws(Items(kana_list, prog))}

\* the kana weighted_pick may return: a random table key when the filtered
\* list is empty, a weighted draw otherwise
QuizPicks(sel, t, prog) ==
    LET kana_list == _filtered_kana(sel, t)
    IN  IF kana_list = <<>> THEN {Keys(t)[i] : i \in 1..Len(t)}
        ELSE {weighted_pick(kana_list, prog, r) :
                  r \in Draws(Items(kana_list, prog))}

\* the lists opts may be after the two shuffles, for the kana picked:
\* all_romaji in any order, wrongs shuffled, the first three of them put
\* after the correct romaji, and that list shuffled
QuizOpts(t, kana) ==
    LET correct_romaji == Lookup(t, kana)
        NotCorrect(r) == r # correct_romaji
    IN  UNION {UNION {Shuffles(<<correct_romaji>> \o Take(wrongs, 3)) :
                          wrongs \in Shuffles(SelectSeq(all_romaji, NotCorrect))} :
                   all_romaji \in Dedup([i \in 1..Len(t) |-> t[i].romaji])}

\* the question for the kana picked and the list opts was left as
Question(t, k, opts) ==
    [kana |-> k, choices |-> opts, correct_idx |-> IndexOf(opts, Lookup(t, k))]

\* the questions of either table for every kana picked, computed once
QuestionOf ==
    [t \in {HIRAGANA, KATAKANA} |->
        [k \in {t[i].kana : i \in 1..Len(t)} |->
            {Question(t, k, opts) : opts \in QuizOpts(t, k)}]]

\* the question fields pick_question may set
Questions(sel, t, prog) ==
    UNION {QuestionOf[t][k] : k \in QuizPicks(sel, t, prog)}

(***************************************************************************)
(* Scene constructors                                                      *)
(***************************************************************************)
\* str.capitalize() of the script name
Capitalize(s) == IF s = "hiragana" THEN "Hiragana" ELSE "Katakana"

NewMenu(script) ==
    [cls |-> "Menu", drawn |-> FALSE, switch_label |-> Capitalize(script)]

NewFlashcards ==
    [cls |-> "Flashcards", selecting |-> TRUE,
     selected_groups |-> <<TRUE, TRUE, TRUE>>, drawn |-> FALSE,
     kana_list |-> <<>>, index |-> 0, show_romaji |-> FALSE]

\* a Quiz constructed past its group selection
NewQuiz_started(q) ==
    [cls |-> "Quiz", score |-> 0, streak |-> 0, choices |-> q.choices,
     correct_idx |-> q.correct_idx, kana |-> q.kana, selecting |-> FALSE,
     selected_groups |-> <<TRUE, TRUE, TRUE>>, drawn |-> FALSE]

\* Quiz.__init__ ends with pick_question(): q is the question it picked
NewQuiz(q) ==
    [cls |-> "Quiz", score |-> 0, streak |-> 0, choices |-> q.choices,
     correct_idx |-> q.correct_idx, kana |-> q.kana, selecting |-> TRUE,
     selected_groups |-> <<TRUE, TRUE, TRUE>>, drawn |-> FALSE]

NewTypeMode ==
    [cls |-> "TypeMode", score |-> 0, streak |-> 0, input |-> <<>>,
     selecting |-> TRUE, selected_groups |-> <<TRUE, TRUE, TRUE, FALSE>>,
     drawn |-> FALSE, kana_list |-> <<>>, kana |-> <<>>, word_mode |-> FALSE,
     word_list |-> <<>>, word |-> <<>>, word_romaji |-> <<>>]

(***************************************************************************)
(* The files a run may start from.                                         *)
(***************************************************************************)
\* no kanadev_progress.json
FileMissing == [exists |-> FALSE, parses |-> FALSE, data |-> <<>>]

\* a file this program wrote
FileSaved ==
    [exists |-> TRUE, parses |-> TRUE,
     data |-> ("hiragana" :> (<<"h_a">> :> IntVal(10) @@ <<"h_zi">> :> IntVal(1))
               @@ "katakana" :> (<<"k_zi">> :> IntVal(9))
               @@ "best_score" :> [hiragana |-> 1, katakana |-> 0])]

\* a file of an older version: fractional mastery, no katakana map, a
\* best_score without a katakana entry
FileLegacy ==
    [exists |-> TRUE, parses |-> TRUE,
     data |-> ("hiragana" :> (<<"h_a">> :> FloatVal(95) @@ <<"h_di">> :> FloatVal(4)
                              @@ <<"h_zi">> :> FloatVal(250))
               @@ "best_score" :> ("hiragana" :> 2))]

\* a file holding a mastery value int() rejects
FileBadValue ==
    [exists |-> TRUE, parses |-> TRUE,
     data |-> ("hiragana" :> (<<"h_a">> :> BadVal) @@ "katakana" :> <<>>)]

\* the environments a run of the model starts in: the progress file, the
\* words file and the condition of the disk
Environments ==
    { [file |-> FileMissing,  words |-> "given",  disk |-> "ok"],
      [file |-> FileSaved,    words |-> "given",  disk |-> "ok"],
      [file |-> FileLegacy,   words |-> "absent", disk |-> "readonly"],
      [file |-> FileBadValue, words |-> "absent", disk |-> "full"] }

\* load_words: the file's object, or empty lists when it is absent or
\* unparsable.  The words file of the model holds two hiragana words (A,
\* KYA) and no katakana key.
WordsFileAbsent == [exists |-> FALSE, data |-> <<>>]
WordsFileGiven ==
    [exists |-> TRUE,
     data |-> ("hiragana" :> << <<"h_a">>, <<"h_ki", "h_ya">> >>)]
WordsFile(w) == IF w = "given" THEN WordsFileGiven ELSE WordsFileAbsent

load_words(f) ==
    IF f.exists THEN f.data
    ELSE ("hiragana" :> <<>> @@ "katakana" :> <<>>)

\* WORDS.get(script, [])
WordsGet(words, script) == IF script \in DOMAIN words THEN words[script] ELSE <<>>

(***************************************************************************)
(* History variables                                                       *)
(***************************************************************************)
NoLast == [op |-> "none"]

\* the record of a click on the Menu's script label
Toggled == [op |-> "toggle", script0 |-> script_name, table0 |-> table]

\* the record of a RIGHT, LEFT or SPACE key handled by Flashcards
KeyPressed(key) == [op |-> "key", key |-> key, index0 |-> scene.index]

\* the record of an event on which App.run clears `running`
Stopped(by) == [op |-> "stop", by |-> by, cls |-> scene.cls]

\* the record of an ESC key handled by a practice scene
Escaped == [op |-> "escape", from |-> scene.cls]

\* the record of a submission made while there is no word to answer
NoWord == [op |-> "noword", streak0 |-> scene.streak]

\* the record of an answer: what was answered, how, and the state before
Answered(op, kana, correct) ==
    [op |-> op, script |-> script_name, kana |-> kana, correct |-> correct,
     progress0 |-> progress, streak0 |-> scene.streak, file0 |-> file]

\* hist after an answer that left the streak at `streak`; `counted` tells a
\* Quiz or kana-typing answer, which ends with save_progress, from a
\* word-mode one, whose streak is not counted in peak
Count(streak, counted) ==
    [hist EXCEPT !.answers = @ + 1,
                 !.peak[script_name] = IF counted THEN Max(@, streak) ELSE @,
                 !.flushed = @ \/ counted]

(***************************************************************************)
(* App                                                                     *)
(***************************************************************************)
\* an event of the batch pygame.event.get() returned is dispatched, or the
\* frame ends, while the main loop is in a frame, up to the run's last
\* answer.  `running` is tested at the top of the loop only: the events
\* that follow a QUIT in its batch are dispatched like any other.
InFrame == pc = "events" /\ hist.answers < MaxAnswers

\* a toggle that only ever selects katakana
toggle_script_one_way(sn) == [script_name |-> "katakana", table |-> KATAKANA]

\* App.toggle_script
toggle_script(sn) ==
    IF sn = "hiragana" THEN [script_name |-> "katakana", table |-> KATAKANA]
    ELSE [script_name |-> "hiragana", table |-> HIRAGANA]

\* _bump_mastery without the upper clamp
_bump_mastery_unclamped(prog, kana, delta) ==
    Put(prog, kana, Max(1, Get(prog, kana) + delta))

\* _bump_mastery reading an unseen kana as 0
_bump_mastery_from_zero(prog, kana, delta) ==
    Put(prog, kana, Clamp((IF kana \in DOMAIN prog THEN prog[kana] ELSE 0) + delta))

\* Scene._bump_mastery on the active script's map
_bump_mastery(prog, kana, delta) ==
    Put(prog, kana, Clamp(Get(prog, kana) + delta))

\* the best score overwritten by every score
UpdateBest_always(best, script, score) == [best EXCEPT ![script] = score]

\* `if self.score > best_score[script]: best_score[script] = self.score`
UpdateBest(best, script, score) ==
    IF score > best[script] THEN [best EXCEPT ![script] = score] ELSE best

\* choose with an incorrect answer leaving the streak as it was
choose_keeps_streak(sc, prog, script, idx) ==
    LET correct == idx = sc.correct_idx
    IN  IF correct
        THEN LET streak == sc.streak + 1
             IN  [scene |-> [sc EXCEPT !.streak = streak, !.score = streak],
                  progress |-> [prog EXCEPT
                      !.best_score = UpdateBest(@, script, streak),
                      ![script] = _bump_mastery(@, sc.kana, 1)]]
        ELSE [scene |-> [sc EXCEPT !.score = 0],
              progress |-> [prog EXCEPT ![script] = _bump_mastery(@, sc.kana, -1)]]

\* Quiz.choose up to (not including) save_progress and pick_question: the
\* scene and the progress it leaves
choose(sc, prog, script, idx) ==
    LET correct == idx = sc.correct_idx
    IN  IF correct
        THEN LET streak == sc.streak + 1
             IN  [scene |-> [sc EXCEPT !.streak = streak, !.score = streak],
                  progress |-> [prog EXCEPT
                      !.best_score = UpdateBest(@, script, streak),
                      ![script] = _bump_mastery(@, sc.kana, 1)]]
        ELSE [scene |-> [sc EXCEPT !.streak = 0, !.score = 0],
              progress |-> [prog EXCEPT ![script] = _bump_mastery(@, sc.kana, -1)]]

\* Menu.handle: a click on one of the three buttons or on the script label
MenuHandle ==
    /\ InFrame
    /\ scene.cls = "Menu"
    /\ \E target \in {"Flashcards", "Quiz", "Type", "switch_label"} :
         IF target = "switch_label"
         THEN /\ scene.drawn
              /\ script_name' = toggle_script(script_name).script_name
              /\ table' = toggle_script(script_name).table
              /\ scene' = [scene EXCEPT !.switch_label = Capitalize(script_name')]
              /\ last' = Toggled
         ELSE /\ UNCHANGED <<script_name, table>>
              /\ last' = NoLast
              /\ IF target = "Flashcards" THEN scene' = NewFlashcards
                 ELSE IF target = "Type" THEN scene' = NewTypeMode
                 ELSE \E q \in Questions(<<TRUE, TRUE, TRUE>>, table,
                                         progress[script_name]) :
                         scene' = NewQuiz(q)
    /\ UNCHANGED <<running, pc, error, progress, WORDS, disk, file, hist, pin, pout>>

\* Quiz.handle in the group-selection sub-state: a click on one of the
\* three group labels, a click on START, or ESC
QuizSelect ==
    /\ InFrame
    /\ scene.cls = "Quiz"
    /\ scene.selecting
    /\ \E ev \in {"group1", "group2", "group3", "start", "escape"} :
         /\ last' = (IF ev = "escape" THEN Escaped ELSE NoLast)
         /\ IF ev = "escape" THEN scene' = NewMenu(script_name)
            ELSE /\ scene.drawn
                 /\ IF ev = "start"
                    THEN IF AnySelected(scene.selected_groups)
                         THEN \E q \in Questions(scene.selected_groups, table,
                                                 progress[script_name]) :
                                 scene' = [scene EXCEPT !.selecting = FALSE,
                                               !.kana = q.kana,
                                               !.choices = q.choices,
                                               !.correct_idx = q.correct_idx]
                         ELSE scene' = scene
                    ELSE LET i == CASE ev = "group1" -> 1 [] ev = "group2" -> 2
                                    [] OTHER -> 3
                         IN  scene' = [scene EXCEPT
                                 !.selected_groups = ToggleGroup(@, i)]
    /\ UNCHANGED <<running, pc, error, script_name, table, progress, WORDS, disk,
                   file, hist, pin, pout>>

\* Quiz.handle in the main sub-state, ESC
QuizEscape ==
    /\ InFrame
    /\ scene.cls = "Quiz"
    /\ ~scene.selecting
    /\ scene' = NewMenu(script_name)
    /\ last' = Escaped
    /\ UNCHANGED <<running, pc, error, script_name, table, progress, WORDS, disk,
                   file, hist, pin, pout>>

\* Quiz.handle in the main sub-state, a click on answer button idx:
\* choose(idx), save_progress, pick_question.  choose looks at idx in
\* `idx == self.correct_idx` only, so the clicks on the three other buttons
\* are one case of the action.
QuizChoose ==
    /\ InFrame
    /\ scene.cls = "Quiz"
    /\ ~scene.selecting
    /\ hist.answers < MaxAnswers
    /\ \E hit \in BOOLEAN :
         \E idx \in {CHOOSE i \in 0..3 : (i = scene.correct_idx) <=> hit} :
           \E res \in {choose(scene, progress, script_name, idx)} :
             /\ progress' = res.progress
             /\ file' = save_progress(res.progress, file, disk)
             /\ last' = Answered("quiz", scene.kana, idx = scene.correct_idx)
             /\ hist' = Count(res.scene.streak, TRUE)
             /\ error' = save_error(disk)
             /\ pc' = AfterCall(save_error(disk), pc)
             /\ UNCHANGED <<running, script_name, table, WORDS, disk, pin, pout>>
             /\ \E k \in QuizPicks(scene.selected_groups, table,
                                   res.progress[script_name]) :
                  \E q \in QuestionOf[table][k] :
                    scene' = [res.scene EXCEPT !.kana = q.kana,
                                  !.choices = q.choices,
                                  !.correct_idx = q.correct_idx]

(***************************************************************************)
(* Flashcards                                                              *)
(***************************************************************************)
\* an index that stops at the ends of the list
MoveIndex_stopping(index, d, n) == Max(0, Min(n - 1, index + d))

\* self.index = (self.index + d) % len(self.kana_list); Python's % of a
\* positive modulus is never negative
MoveIndex(index, d, n) == (index + d) % n

\* Flashcards.handle.  Events: a click on a group label or on START, and
\* the keys ESC, RIGHT, LEFT, SPACE.
FlashcardsHandle ==
    /\ InFrame
    /\ scene.cls = "Flashcards"
    /\ \E ev \in {"group1", "group2", "group3", "start", "escape", "right",
                  "left", "space"} :
         /\ last' = (IF ev = "escape" THEN Escaped
                     ELSE IF scene.selecting THEN NoLast ELSE KeyPressed(ev))
         /\ IF ev = "escape" THEN scene' = NewMenu(script_name)
            ELSE IF scene.selecting
            THEN /\ ev \in {"group1", "group2", "group3", "start"}
                 /\ scene.drawn
                 /\ IF ev = "start"
                    THEN IF AnySelected(scene.selected_groups)
                         THEN \E kl \in Shuffles(_filtered_kana(
                                                  scene.selected_groups, table)) :
                                 scene' = [scene EXCEPT !.selecting = FALSE,
                                               !.kana_list = kl,
                                               !.index = 0,
                                               !.show_romaji = FALSE]
                         ELSE scene' = scene
                    ELSE LET i == CASE ev = "group1" -> 1 [] ev = "group2" -> 2
                                    [] OTHER -> 3
                         IN  scene' = [scene EXCEPT
                                 !.selected_groups = ToggleGroup(@, i)]
            ELSE /\ ev \in {"right", "left", "space"}
                 /\ IF ev = "space"
                    THEN scene' = [scene EXCEPT !.show_romaji = ~@]
                    ELSE IF scene.kana_list # <<>>
                    THEN scene' = [scene EXCEPT
                             !.index = MoveIndex(@, IF ev = "right" THEN 1 ELSE -1,
                                                 Len(scene.kana_list)),
                             !.show_romaji = FALSE]
                    ELSE scene' = scene
    /\ UNCHANGED <<running, pc, error, script_name, table, progress, WORDS, disk,
                   file, hist, pin, pout>>

(***************************************************************************)
(* TypeMode                                                                *)
(***************************************************************************)
\* str.lower() on the letters a user of the model types
Lower(c) ==
    CASE c = "A" -> "a" [] c = "I" -> "i" [] c = "J" -> "j" [] c = "K" -> "k"
      [] c = "Y" -> "y" [] OTHER -> c

\* str.strip()
RECURSIVE Strip(_)
Strip(s) ==
    IF s = <<>> THEN s
    ELSE IF Head(s) = " " THEN Strip(Tail(s))
    ELSE IF s[Len(s)] = " " THEN Strip(SubSeq(s, 1, Len(s) - 1))
    ELSE s

\* str.replace(" ", "")
RemoveSpaces(s) == LET NotSpace(c) == c # " " IN SelectSeq(s, NotSpace)

\* guess = self.input.text.strip().lower().replace(" ", "")
Guess(text) ==
    LET stripped == Strip(text)
    IN  RemoveSpaces([i \in 1..Len(stripped) |-> Lower(stripped[i])])

\* TypeMode.kana_to_romaji: two characters at a time when they are a key of
\* the table, else one; a character outside the table is kept as it is
RECURSIVE kana_to_romaji(_, _)
kana_to_romaji(t, word) ==
    IF word = <<>> THEN <<>>
    ELSE IF Len(word) >= 2 /\ InTable(t, SubSeq(word, 1, 2))
    THEN Lookup(t, SubSeq(word, 1, 2)) \o kana_to_romaji(t, SubSeq(word, 3, Len(word)))
    ELSE IF InTable(t, <<word[1]>>)
    THEN Lookup(t, <<word[1]>>) \o kana_to_romaji(t, Tail(word))
    ELSE <<word[1]>> \o kana_to_romaji(t, Tail(word))

\* the kana TypeMode._pick may return for kana_list: None when it is empty
TypePicks(kana_list, prog) ==
    IF kana_list = <<>> THEN {<<>>}
    ELSE {_pick(kana_list, prog, x) : x \in Draws(Items(kana_list, prog))}

\* the characters a key press may add, and the texts typing may pass through
TypedChars == UNION {{l[i] : i \in 1..Len(l)} : l \in TypedLines}
CanType(text) == \E l \in TypedLines : Len(text) <= Len(l) /\ SubSeq(l, 1, Len(text)) = text

\* the streak after a typed answer
TypedStreak(streak, correct) == IF correct THEN streak + 1 ELSE 0

\* the kana branch without the best-score update
submit_kana_no_best(sc, prog, script, t, guess) ==
    LET correct == guess = Lookup(t, sc.kana)
        streak == TypedStreak(sc.streak, correct)
    IN  IF correct
        THEN [scene |-> [sc EXCEPT !.streak = streak, !.score = streak],
              progress |-> [prog EXCEPT ![script] = _bump_mastery(@, sc.kana, 1)]]
        ELSE [scene |-> [sc EXCEPT !.streak = 0, !.score = 0],
              progress |-> [prog EXCEPT ![script] = _bump_mastery(@, sc.kana, -1)]]

\* the kana branch of a submit, up to (not including) save_progress and
\* _pick: the scene and the progress it leaves
submit_kana(sc, prog, script, t, guess) ==
    LET correct == guess = Lookup(t, sc.kana)
        streak == TypedStreak(sc.streak, correct)
    IN  IF correct
        THEN [scene |-> [sc EXCEPT !.streak = streak, !.score = streak],
              progress |-> [prog EXCEPT
                  !.best_score = UpdateBest(@, script, streak),
                  ![script] = _bump_mastery(@, sc.kana, 1)]]
        ELSE [scene |-> [sc EXCEPT !.streak = 0, !.score = 0],
              progress |-> [prog EXCEPT ![script] = _bump_mastery(@, sc.kana, -1)]]

\* the word branch feeding the best score of the hiragana record
submit_word_feeds_best(sc, prog, guess) ==
    LET correct == RemoveSpaces(sc.word_romaji)
    IN  IF sc.word = <<>> THEN [scene |-> sc, progress |-> prog]
        ELSE IF guess = correct
        THEN [scene |-> [sc EXCEPT !.streak = sc.streak + 1,
                                   !.score = sc.streak + 1],
              progress |-> [prog EXCEPT
                  !.best_score = UpdateBest(@, "hiragana", sc.streak + 1)]]
        ELSE [scene |-> [sc EXCEPT !.streak = 0, !.score = 0], progress |-> prog]

\* the word branch without its `if not self.word` test
submit_word_unguarded(sc, prog, guess) ==
    LET correct == RemoveSpaces(sc.word_romaji)
    IN  IF guess = correct
        THEN [scene |-> [sc EXCEPT !.streak = sc.streak + 1,
                                   !.score = sc.streak + 1],
              progress |-> prog]
        ELSE [scene |-> [sc EXCEPT !.streak = 0, !.score = 0], progress |-> prog]

\* the word branch of a submit, up to (not including) pick_word
submit_word(sc, prog, guess) ==
    LET correct == RemoveSpaces(sc.word_romaji)
    IN  IF sc.word = <<>> THEN [scene |-> sc, progress |-> prog]
        ELSE IF guess = correct
        THEN [scene |-> [sc EXCEPT !.streak = sc.streak + 1,
                                   !.score = sc.streak + 1],
              progress |-> prog]
        ELSE [scene |-> [sc EXCEPT !.streak = 0, !.score = 0], progress |-> prog]

\* TypeMode.handle in the group-selection sub-state
TypeSelect ==
    /\ InFrame
    /\ scene.cls = "TypeMode"
    /\ scene.selecting
    /\ \E ev \in {"group1", "group2", "group3", "group4", "start", "escape"} :
         /\ last' = (IF ev = "escape" THEN Escaped ELSE NoLast)
         /\ IF ev = "escape" THEN scene' = NewMenu(script_name)
            ELSE /\ scene.drawn
                 /\ IF ev = "start"
                    THEN IF AnySelected(scene.selected_groups)
                         THEN LET started == [scene EXCEPT !.selecting = FALSE,
                                      !.word_mode = scene.selected_groups[4],
                                      !.input = <<>>, !.score = 0, !.streak = 0]
                              IN  IF scene.selected_groups[4]
                                  THEN LET wl == WordsGet(WORDS, script_name)
                                       IN  IF wl = <<>>
                                           THEN scene' = [started EXCEPT
                                                    !.word_list = wl, !.word = <<>>,
                                                    !.word_romaji = <<>>]
                                           ELSE \E i \in 1..Len(wl) :
                                                  scene' = [started EXCEPT
                                                    !.word_list = wl, !.word = wl[i],
                                                    !.word_romaji =
                                                        kana_to_romaji(table, wl[i])]
                                  ELSE LET kl == _filtered_kana(scene.selected_groups,
                                                                table)
                                       IN  \E k \in TypePicks(kl, progress[script_name]) :
                                              scene' = [started EXCEPT
                                                  !.kana_list = kl, !.kana = k]
                         ELSE scene' = scene
                    ELSE LET i == CASE ev = "group1" -> 1 [] ev = "group2" -> 2
                                    [] ev = "group3" -> 3 [] OTHER -> 4
                         IN  scene' = [scene EXCEPT
                                 !.selected_groups = ToggleGroup(@, i)]
    /\ UNCHANGED <<running, pc, error, script_name, table, progress, WORDS, disk,
                   file, hist, pin, pout>>

\* TypeMode.handle in the main sub-state, ESC (InputLine.handle then adds
\* nothing: the character is not printable)
TypeEscape ==
    /\ InFrame
    /\ scene.cls = "TypeMode"
    /\ ~scene.selecting
    /\ scene' = NewMenu(script_name)
    /\ last' = Escaped
    /\ UNCHANGED <<running, pc, error, script_name, table, progress, WORDS, disk,
                   file, hist, pin, pout>>

\* InputLine.handle: BACKSPACE or a printable character
TypeKey ==
    /\ InFrame
    /\ scene.cls = "TypeMode"
    /\ ~scene.selecting
    /\ \E key \in {"backspace"} \cup TypedChars :
         IF key = "backspace"
         THEN scene' = [scene EXCEPT !.input = SubSeq(@, 1, Len(@) - 1)]
         ELSE /\ CanType(Append(scene.input, key))
              /\ scene' = [scene EXCEPT !.input = Append(@, key)]
    /\ last' = NoLast
    /\ UNCHANGED <<running, pc, error, script_name, table, progress, WORDS, disk,
                   file, hist, pin, pout>>

\* TypeMode.handle in the main sub-state, RETURN in word mode
TypeSubmitWord ==
    /\ InFrame
    /\ scene.cls = "TypeMode"
    /\ ~scene.selecting
    /\ scene.word_mode
    /\ scene.word = <<>> \/ hist.answers < MaxAnswers
    /\ LET res == submit_word(scene, progress, Guess(scene.input))
       IN  /\ progress' = res.progress
           /\ IF scene.word_list # <<>>
              THEN \E i \in 1..Len(scene.word_list) :
                     scene' = [res.scene EXCEPT
                         !.word = scene.word_list[i],
                         !.word_romaji = kana_to_romaji(table, scene.word_list[i]),
                         !.input = <<>>]
              ELSE scene' = [res.scene EXCEPT !.input = <<>>]
           /\ IF scene.word = <<>>
              THEN last' = NoWord /\ hist' = hist
              ELSE /\ last' = Answered("word", scene.word,
                                       Guess(scene.input) = RemoveSpaces(scene.word_romaji))
                   /\ hist' = Count(res.scene.streak, FALSE)
    /\ UNCHANGED <<running, pc, error, script_name, table, WORDS, disk, file, pin, pout>>

\* TypeMode.handle in the main sub-state, RETURN in kana mode: the answer,
\* save_progress, _pick.  table[None] raises KeyError.
TypeSubmitKana ==
    /\ InFrame
    /\ scene.cls = "TypeMode"
    /\ ~scene.selecting
    /\ ~scene.word_mode
    /\ hist.answers < MaxAnswers
    /\ IF ~InTable(table, scene.kana)
       THEN /\ error' = "KeyError"
            /\ pc' = "crashed"
            /\ last' = NoLast
            /\ UNCHANGED <<progress, file, scene, hist>>
       ELSE   LET guess == Guess(scene.input)
                  res == submit_kana(scene, progress, script_name, table, guess)
              IN  /\ progress' = res.progress
                  /\ file' = save_progress(res.progress, file, disk)
                  /\ \E k \in TypePicks(scene.kana_list, res.progress[script_name]) :
                         scene' = [res.scene EXCEPT !.kana = k, !.input = <<>>]
                  /\ last' = Answered("type", scene.kana,
                                      guess = Lookup(table, scene.kana))
                  /\ hist' = Count(res.scene.streak, TRUE)
                  /\ error' = save_error(disk)
                  /\ pc' = AfterCall(save_error(disk), pc)
    /\ UNCHANGED <<running, script_name, table, WORDS, disk, pin, pout>>

(***************************************************************************)
(* App.run                                                                 *)
(***************************************************************************)
\* the scene classes that define update: Menu (on the first Scene base),
\* Quiz and TypeMode.  The second `class Scene` (line 305), the base of
\* Quiz, Flashcards and TypeMode, defines only _bump_mastery.
HasUpdate(cls) == cls \in {"Menu", "Quiz", "TypeMode"}

\* draw: Menu and a scene in its group-selection sub-state set their label
\* rectangles
Draw(sc) ==
    IF sc.cls = "Menu" THEN [sc EXCEPT !.drawn = TRUE]
    ELSE IF sc.selecting THEN [sc EXCEPT !.drawn = TRUE]
    ELSE sc

\* a pygame.QUIT event
Quit ==
    /\ InFrame
    /\ running' = FALSE
    /\ last' = Stopped("quit")
    /\ UNCHANGED <<pc, error, script_name, table, progress, scene, WORDS, disk, file,
                   hist, pin, pout>>

\* ESC while the scene is a Menu
EscapeInMenu ==
    /\ InFrame
    /\ scene.cls = "Menu"
    /\ running' = FALSE
    /\ last' = Stopped("escape")
    /\ UNCHANGED <<pc, error, script_name, table, progress, scene, WORDS, disk, file,
                   hist, pin, pout>>

\* the end of a frame: scene.update(dt), scene.draw(SCREEN), and the
\* `while self.running` test
EndFrame ==
    /\ InFrame
    /\ IF ~HasUpdate(scene.cls)
       THEN /\ error' = "AttributeError"
            /\ pc' = "crashed"
            /\ scene' = scene
       ELSE /\ scene' = Draw(scene)
            /\ pc' = IF running THEN "events" ELSE "done"
            /\ error' = error
    /\ last' = NoLast
    /\ UNCHANGED <<running, script_name, table, progress, WORDS, disk, file, hist,
                   pin, pout>>

(***************************************************************************)
(* The program                                                             *)
(***************************************************************************)
NoCall == [fn |-> "none"]

Init ==
    /\ \E env \in Environments :
         /\ file = env.file
         /\ disk = env.disk
         /\ progress = load_progress(env.file)
         /\ hist = [answers |-> 0,
                    loaded_best |-> load_progress(env.file).best_score,
                    peak |-> [s \in Scripts |-> 0],
                    flushed |-> FALSE]
         /\ WORDS = load_words(WordsFile(env.words))
    /\ running = TRUE
    /\ pc = "events"
    /\ error = "none"
    /\ script_name = "hiragana"
    /\ table = HIRAGANA
    /\ scene = NewMenu("hiragana")
    /\ last = NoLast
    /\ pin = NoCall
    /\ pout = NoCall

Next ==
    \/ Quit
    \/ EscapeInMenu
    \/ MenuHandle
    \/ FlashcardsHandle
    \/ QuizSelect
    \/ QuizEscape
    \/ QuizChoose
    \/ TypeSelect
    \/ TypeEscape
    \/ TypeKey
    \/ TypeSubmitWord
    \/ TypeSubmitKana
    \/ EndFrame

Spec == Init /\ [][Next]_vars

(***************************************************************************)
(* Selector harness: choice_weight and the two selectors applied once to   *)
(* inputs drawn from bounded sets.                                         *)
(***************************************************************************)
\* mastery values a map of the program holds
MasteryValues == 1..10

\* the candidate lists of the harness: what _filtered_kana returns for a
\* group selection and a table (the empty list included)
CandidateLists ==
    {_filtered_kana(<<b, d, c>>, t) :
        b \in BOOLEAN, d \in BOOLEAN, c \in BOOLEAN, t \in {HIRAGANA, KATAKANA}}

\* the mastery maps of the harness on a candidate list: the empty map, and
\* the maps giving the first candidate m1 and every other candidate m2
HarnessMaps(kana_list) ==
    {<<>>} \cup
    {[k \in {kana_list[i] : i \in 1..Len(kana_list)} |->
         IF k = kana_list[1] THEN m1 ELSE m2] :
        m1 \in MasteryValues, m2 \in MasteryValues}

\* choice_weight on two mastery values
CallWeight ==
    /\ pin = NoCall
    /\ \E m1 \in MasteryValues, m2 \in MasteryValues :
         /\ pin' = [fn |-> "choice_weight", m1 |-> m1, m2 |-> m2]
         /\ pout' = [w1 |-> choice_weight(m1), w2 |-> choice_weight(m2)]
    /\ UNCHANGED appvars

\* Quiz.weighted_pick and TypeMode._pick on one list, map and draw
CallSelectors ==
    /\ pin = NoCall
    /\ \E kana_list \in CandidateLists \ {<<>>} :
         \E prog \in HarnessMaps(kana_list) :
           \E r \in Draws(Items(kana_list, prog)) :
             /\ pin' = [fn |-> "pick", kana_list |-> kana_list, prog |-> prog,
                        r |-> r]
             /\ pout' = [items |-> Items(kana_list, prog),
                         total |-> Total(Items(kana_list, prog)),
                         weighted_pick |-> weighted_pick(kana_list, prog, r),
                         _pick |-> _pick(kana_list, prog, r)]
    /\ UNCHANGED appvars

\* Quiz.weighted_pick with no group selected and TypeMode._pick with an
\* empty kana_list, on one table and mastery map.  Neither call raises:
\* weighted_pick returns random.choice of the table's keys; in _pick total is
\* 0, the loop body never runs and the function returns None.
CallSelectorsEmpty ==
    /\ pin = NoCall
    /\ \E t \in {HIRAGANA, KATAKANA} :
         \E prog \in {<<>>} \cup HarnessMaps(Keys(t)) :
           \E k \in QuizPicks(<<FALSE, FALSE, FALSE>>, t, prog) :
             \E none \in TypePicks(<<>>, prog) :
               /\ pin' = [fn |-> "pick_empty", table |-> t, prog |-> prog]
               /\ pout' = [weighted_pick |-> k, _pick |-> none,
                           raised |-> [weighted_pick |-> FALSE, _pick |-> FALSE]]
    /\ UNCHANGED appvars

InitSelector == Init /\ file = FileMissing

NextSelector == CallWeight \/ CallSelectors \/ CallSelectorsEmpty

SpecSelector == InitSelector /\ [][NextSelector]_vars

(***************************************************************************)
(* Store harness: load_progress applied once to a file drawn from a        *)
(* bounded set of files.                                                   *)
(***************************************************************************)
\* the numbers a stored mastery may be: integers below, in and above the
\* range, fractions of the legacy format (ties of round() among them),
\* floats above 1, and a value int() rejects
StoredValues ==
    {IntVal(n) : n \in {-3, 0, 1, 7, 10, 15}}
        \cup {FloatVal(h) : h \in {-50, 4, 5, 15, 25, 95, 100, 101, 250, 1099, 1500}}
        \cup {BadVal}

\* a JSON object with the keys that are present
StoredObject(h, k, b) ==
    [key \in {x \in {"hiragana"} : h.present} \cup {x \in {"katakana"} : k.present}
              \cup {x \in {"best_score"} : b.present} |->
        IF key = "hiragana" THEN h.v ELSE IF key = "katakana" THEN k.v ELSE b.v]

\* the files load_progress is applied to: no file, an unparsable one, and
\* objects with each top-level key and each best_score entry present or not
StoredFiles ==
    LET absent == [present |-> FALSE, v |-> <<>>]
        Given(vs) == {[present |-> TRUE, v |-> x] : x \in vs}
        hira == {absent} \cup Given({<<>>})
                    \cup Given({(<<"h_a">> :> v) : v \in StoredValues})
        kata == {absent}
                    \cup Given({(<<"k_ki">> :> v) : v \in {IntVal(15), FloatVal(250)}})
        best == {absent}
                    \cup Given({<<>>, "hiragana" :> 2,
                                ("hiragana" :> 2 @@ "katakana" :> 5)})
    IN  {FileMissing, [exists |-> TRUE, parses |-> FALSE, data |-> <<>>]}
            \cup {[exists |-> TRUE, parses |-> TRUE, data |-> StoredObject(h, k, b)] :
                      h \in hira, k \in kata, b \in best}

\* load_progress on one file
CallLoad ==
    /\ pin = NoCall
    /\ \E f \in StoredFiles :
         /\ pin' = [fn |-> "load_progress", file |-> f]
         /\ pout' = [progress |-> load_progress(f)]
    /\ UNCHANGED appvars

NextStore == CallLoad

SpecStore == InitSelector /\ [][NextStore]_vars

(***************************************************************************)
(* Flashcards harness: Flashcards.handle applied, event after event, to a  *)
(* Flashcards object that has been constructed and drawn once, for either  *)
(* script.                                                                 *)
(***************************************************************************)
InitCards ==
    /\ \E env \in Environments :
         /\ file = env.file
         /\ disk = env.disk
         /\ progress = load_progress(env.file)
         /\ hist = [answers |-> 0,
                    loaded_best |-> load_progress(env.file).best_score,
                    peak |-> [s \in Scripts |-> 0],
                    flushed |-> FALSE]
         /\ WORDS = load_words(WordsFile(env.words))
    /\ \E sn \in Scripts :
         /\ script_name = sn
         /\ table = (IF sn = "hiragana" THEN HIRAGANA ELSE KATAKANA)
    /\ scene = Draw(NewFlashcards)
    /\ running = TRUE
    /\ pc = "events"
    /\ error = "none"
    /\ last = NoLast
    /\ pin = NoCall
    /\ pout = NoCall

NextCards == FlashcardsHandle

SpecCards == InitCards /\ [][NextCards]_vars

(***************************************************************************)
(* Properties                                                              *)
(***************************************************************************)
AnswerOps == {"quiz", "type"}

\* the mastery an answered kana had before the answer: 1 when it had no entry
OldMastery == 
    IF last.kana \in DOMAIN last.progress0[last.script]
    THEN last.progress0[last.script][last.kana] ELSE 1

\* C1: every value of the mastery map of either writing system is an
\* integer in [1,10], after the load and after every answer.
MasteryInRange ==
    \A s \in Scripts : \A k \in DOMAIN progress[s] : progress[s][k] \in 1..10

\* C1 witness: a correct answer on a kana of mastery 10 left it at 10.
MasteryHeldAtTen ==
    /\ last.op \in AnswerOps
    /\ last.correct
    /\ OldMastery = 10
    /\ progress[last.script][last.kana] = 10

\* C2: after an answer in Quiz or kana-typing mode, the answered kana's
\* mastery is clamp(m + 1, 1, 10) for a correct and clamp(m - 1, 1, 10) for
\* an incorrect answer, m being the old mastery (1 when it had no entry).
MasteryUpdate ==
    last.op \in AnswerOps =>
        LET m == OldMastery
            new == progress[last.script][last.kana]
        IN  IF last.correct
            THEN new = (IF m + 1 > 10 THEN 10 ELSE m + 1)
            ELSE new = (IF m - 1 < 1 THEN 1 ELSE m - 1)

\* C2 witness: an unseen kana answered correctly is stored as 2.
UnseenAnsweredCorrectly ==
    /\ last.op \in AnswerOps
    /\ last.correct
    /\ last.kana \notin DOMAIN last.progress0[last.script]
    /\ progress[last.script][last.kana] = 2

\* C3 (as claimed): whichever scene is active, a frame of the main loop
\* (events, update, draw) completes without raising, every scene having
\* handle, update and draw.
FrameCompletes == error = "none"

\* C4: the best score of each writing system never decreases in a step.
BestNeverDecreases ==
    [][\A s \in Scripts : progress'.best_score[s] >= progress.best_score[s]]_vars

\* C4 witness: an answer raised the best score of the active script.
BestRaised ==
    /\ last.op \in AnswerOps
    /\ progress.best_score[last.script] > last.progress0.best_score[last.script]

\* C5: in Quiz and TypeMode the score equals the streak, and an answer
\* leaves the streak one higher when correct and at zero when incorrect.
StreakRule ==
    /\ scene.cls \in {"Quiz", "TypeMode"} => scene.score = scene.streak
    /\ last.op \in {"quiz", "type", "word"} =>
           scene.streak = (IF last.correct THEN last.streak0 + 1 ELSE 0)

\* C5 witness: an incorrect answer reset a positive streak.
StreakReset ==
    /\ last.op \in AnswerOps
    /\ ~last.correct
    /\ last.streak0 > 0
    /\ scene.streak = 0
    /\ scene.score = 0

\* C6: right after a correct answer in Quiz or kana-typing mode the best
\* score of the active script is max(previous best, new streak); in those
\* scenes it is never below the current streak; and it is the largest of
\* the loaded value and the streaks reached for the script.
BestTracksStreak ==
    /\ (last.op \in AnswerOps /\ last.correct) =>
           progress.best_score[last.script] =
               Max(last.progress0.best_score[last.script], last.streak0 + 1)
    /\ (scene.cls = "Quiz" \/ (scene.cls = "TypeMode" /\ ~scene.word_mode)) =>
           progress.best_score[script_name] >= scene.streak
    /\ \A s \in Scripts :
           progress.best_score[s] = Max(hist.loaded_best[s], hist.peak[s])

\* C6 witness: a streak of 2 beat a loaded best score of 1.
StreakBeatLoadedBest ==
    /\ last.op \in AnswerOps
    /\ last.correct
    /\ hist.loaded_best[last.script] = 1
    /\ scene.streak = 2
    /\ progress.best_score[last.script] = 2

\* TypeMode in its main sub-state in word mode
InWordMode == scene.cls = "TypeMode" /\ ~scene.selecting /\ scene.word_mode

\* C7: a step taken in word mode leaves the best scores and both mastery
\* maps as they were, and a word answer leaves the streak one higher when
\* correct and at zero when incorrect.
WordModeFrame ==
    [][InWordMode =>
          /\ progress' = progress
          /\ last'.op = "word" =>
                 scene'.streak = (IF last'.correct THEN scene.streak + 1 ELSE 0)]_vars

\* C7 witness: a word-mode streak above the best score of the script.
WordStreakAboveBest ==
    /\ InWordMode
    /\ last.op = "word"
    /\ last.correct
    /\ scene.streak > progress.best_score[script_name]
    /\ progress = last.progress0

\* C8 (as claimed): the weight is positive, strictly decreasing from
\* mastery 1 to 5, and no mastery above 5 weighs more than mastery 5.
WeightShape ==
    pin.fn = "choice_weight" =>
        /\ pout.w1 > 0
        /\ (pin.m1 < pin.m2 /\ pin.m2 <= 5) => pout.w1 > pout.w2
        /\ (pin.m1 = 5 /\ pin.m2 > 5) => pout.w2 <= pout.w1

\* the harness call on two candidates, the first of mastery 1 and the
\* second of mastery 10
ExampleCall ==
    /\ pin.fn = "pick"
    /\ Len(pin.kana_list) = 2
    /\ pin.prog # <<>>
    /\ pin.prog[pin.kana_list[1]] = 1
    /\ pin.prog[pin.kana_list[2]] = 10

\* C9 (as claimed): for {A: mastery 1, B: mastery 10} the weights are 26.01
\* and 1.01, and A's share of the draw range is about 25.6 times B's
\* (between 25 and 26 times).
ExampleWeights ==
    ExampleCall =>
        /\ pout.items[1].w = 26010
        /\ pout.items[2].w = 1010
        /\ pout.items[1].w >= 25 * pout.items[2].w
        /\ pout.items[1].w <= 26 * pout.items[2].w

\* the first position of items whose cumulative weight is >= r
FirstReaching(items, r) ==
    CHOOSE i \in 1..Len(items) :
        /\ Cum(items, i) >= r
        /\ \A j \in 1..(i - 1) : Cum(items, j) < r

\* C10: for a non-empty list and a draw r in [0, total), both selectors
\* return the first candidate whose cumulative weight is >= r, and the
\* draws selecting candidate i are those in (Cum(i-1), Cum(i)] (from 0 for
\* the first), a range as long as the candidate's weight.
SelectorsPickFirstReaching ==
    pin.fn = "pick" =>
        LET items == pout.items
            i == FirstReaching(items, pin.r)
        IN  /\ pout.weighted_pick = pin.kana_list[i]
            /\ pout._pick = pin.kana_list[i]
            /\ \A j \in 1..Len(items) :
                   /\ (pout.weighted_pick = pin.kana_list[j]) <=>
                          (pin.r <= Cum(items, j) /\ (j > 1 => pin.r > Cum(items, j - 1)))
                   /\ Cum(items, j) - (IF j > 1 THEN Cum(items, j - 1) ELSE 0)
                          = choice_weight(Get(pin.prog, pin.kana_list[j]))

\* C10 witness: a draw equal to the first candidate's cumulative weight
\* selected the first of several candidates.
DrawOnBoundary ==
    /\ pin.fn = "pick"
    /\ Len(pin.kana_list) >= 2
    /\ pin.r = pout.items[1].w
    /\ pout.weighted_pick = pin.kana_list[1]
    /\ pout._pick = pin.kana_list[1]

\* C11 (as claimed): a lower mastery never weighs less than a higher one
\* (m1 < m2 implies weight(m1) >= weight(m2)), every weight is positive, and
\* so every candidate of a call owns a part of the draw range.
LowerMasteryNeverLighter ==
    /\ pin.fn = "choice_weight" =>
           /\ pout.w1 > 0
           /\ pin.m1 < pin.m2 => pout.w1 >= pout.w2
    /\ pin.fn = "pick" =>
           \A j \in 1..Len(pout.items) :
               Cum(pout.items, j) > (IF j > 1 THEN Cum(pout.items, j - 1) ELSE 0)

\* C12: an answer in Quiz or kana-typing mode changes the entry of the kana
\* answered and no other mastery data: the other entries of the active
\* script's map and the whole map of the other script are as before.
AnswerTouchesOneEntry ==
    last.op \in AnswerOps =>
        LET before == last.progress0[last.script]
            after == progress[last.script]
        IN  /\ \A s \in Scripts \ {last.script} : progress[s] = last.progress0[s]
            /\ DOMAIN after = (DOMAIN before) \cup {last.kana}
            /\ \A k \in (DOMAIN before) \ {last.kana} : after[k] = before[k]

\* C12 witness: an answer changed the answered kana's mastery while another
\* entry of the same map and an entry of the other script's map stayed.
OtherEntriesKept ==
    /\ last.op \in AnswerOps
    /\ progress[last.script][last.kana] # OldMastery
    /\ \E k \in DOMAIN last.progress0[last.script] :
           k # last.kana /\ progress[last.script][k] = last.progress0[last.script][k]
    /\ \E s \in Scripts \ {last.script} :
           progress[s] # <<>> /\ progress[s] = last.progress0[s]

\* the file holds exactly what json.dump writes for the in-memory progress
StoredIsCurrent == file.exists /\ file.parses /\ file.data = Dump(progress)

\* C13 (as claimed): after every answer given in Quiz or TypeMode, a
\* word-mode answer included, the progress has been flushed: with a
\* successful write the stored progress equals the in-memory progress.
FlushedAfterEveryAnswer ==
    (last.op \in {"quiz", "type", "word"} /\ disk = "ok") => StoredIsCurrent

\* C13 (amended): an answer in Quiz or kana-typing mode flushes the progress
\* after its mutation and before the next question, so once such an answer
\* has been given and writes succeed the stored progress equals the
\* in-memory progress; a word-mode answer writes nothing.
FlushedAfterKanaAnswer ==
    /\ (last.op \in AnswerOps /\ disk = "ok") => StoredIsCurrent
    /\ (hist.flushed /\ disk = "ok") => StoredIsCurrent
    /\ last.op = "word" => file = last.file0

\* C13 witness: an answer changed the progress and the file written in the
\* same step holds the changed progress.
FlushHoldsTheAnswer ==
    /\ last.op \in AnswerOps
    /\ disk = "ok"
    /\ progress # last.progress0
    /\ file # last.file0
    /\ StoredIsCurrent

\* C14: saving a progress the program can hold and loading the file back
\* (write and read succeeding) returns the same mastery map for each script
\* and the same best-score map; in particular the file an answer wrote
\* loads back to the in-memory progress.
SaveLoadRoundTrip ==
    /\ load_progress(save_progress(progress, file, "ok")) = progress
    /\ (hist.flushed /\ disk = "ok") => load_progress(file) = progress

\* C14 witness: after an answer that was saved, the file loads back to a
\* progress with a mastery entry and a positive best score.
SavedAnswerLoadsBack ==
    /\ last.op \in AnswerOps
    /\ disk = "ok"
    /\ file # last.file0
    /\ progress[last.script] # <<>>
    /\ progress.best_score[last.script] > 0
    /\ load_progress(file) = progress

\* the stored object holds only numbers int() accepts
AllNumeric(data) ==
    \A s \in Scripts \cap DOMAIN data :
        \A k \in DOMAIN data[s] : data[s][k].kind \in {"int", "float"}

\* C15: load_progress always returns a progress of the full shape; it is
\* the default state when the file is missing, unparsable or holds a value
\* that is no number; when the file parses, the mastery maps and best_score
\* entries present are kept and the missing ones are filled with the
\* defaults (empty map, 0).
LoadNeverFails ==
    pin.fn = "load_progress" =>
        LET f == pin.file
            p == pout.progress
        IN  /\ DOMAIN p = {"hiragana", "katakana", "best_score"}
            /\ DOMAIN p.best_score = Scripts
            /\ (~f.exists \/ ~f.parses \/ ~AllNumeric(f.data)) => p = DefaultProgress
            /\ (f.exists /\ f.parses /\ AllNumeric(f.data)) =>
                   \A s \in Scripts :
                       /\ DOMAIN p[s] = (IF s \in DOMAIN f.data
                                          THEN DOMAIN f.data[s] ELSE {})
                       /\ p.best_score[s] =
                              (IF "best_score" \in DOMAIN f.data
                                  /\ s \in DOMAIN f.data["best_score"]
                               THEN f.data["best_score"][s] ELSE 0)

\* C15 witness: a file with a hiragana map and a hiragana best score only
\* was loaded: both are kept, the katakana parts are the defaults.
MissingPartsDefaulted ==
    /\ pin.fn = "load_progress"
    /\ pin.file.parses
    /\ DOMAIN pin.file.data = {"hiragana", "best_score"}
    /\ DOMAIN pin.file.data["best_score"] = {"hiragana"}
    /\ pout.progress.hiragana # <<>>
    /\ pout.progress.katakana = <<>>
    /\ pout.progress.best_score = [hiragana |-> 2, katakana |-> 0]

\* the integers nearest to h/10 (both neighbours at a tie)
NearestTenth(h) == {r \in -40..160 : 10 * r - 5 <= h /\ h <= 10 * r + 5}

\* h/100 truncated toward zero
TruncatedWhole(h) ==
    CHOOSE n \in -20..20 :
        IF h >= 0 THEN 100 * n <= h /\ h < 100 * (n + 1)
        ELSE 100 * (n - 1) < h /\ h <= 100 * n

\* C20: a successful load turns a stored float v <= 1 into
\* clamp(round(10 v), 1, 10) and any other number into its integer part
\* clamped to [1,10], so every loaded mastery is an integer in [1,10].
LegacyRescaled ==
    (pin.fn = "load_progress" /\ pin.file.exists /\ pin.file.parses
         /\ AllNumeric(pin.file.data)) =>
        \A s \in Scripts \cap DOMAIN pin.file.data :
            \A k \in DOMAIN pin.file.data[s] :
                LET v == pin.file.data[s][k]
                    m == pout.progress[s][k]
                IN  /\ m \in 1..10
                    /\ IF v.kind = "float" /\ v.h <= 100
                       THEN \E r \in NearestTenth(v.h) :
                                m = (IF r < 1 THEN 1 ELSE IF r > 10 THEN 10 ELSE r)
                       ELSE LET n == TruncatedWhole(v.h)
                            IN  m = (IF n < 1 THEN 1 ELSE IF n > 10 THEN 10 ELSE n)

\* C20 witness: a load turned the stored fraction 0.95 into mastery 10 and
\* the stored float 2.5 into mastery 2.
FractionAndFloatLoaded ==
    /\ pin.fn = "load_progress"
    /\ pin.file.parses
    /\ DOMAIN pin.file.data = {"hiragana", "katakana"}
    /\ pin.file.data["hiragana"] = (<<"h_a">> :> FloatVal(95))
    /\ pin.file.data["katakana"] = (<<"k_ki">> :> FloatVal(250))
    /\ pout.progress.hiragana[<<"h_a">>] = 10
    /\ pout.progress.katakana[<<"k_ki">>] = 2

\* C16: an answer whose write fails still completes: no error is raised,
\* the scene stays and shows a next question, and mastery, best score and
\* streak are what the answer makes them with a successful write.
WriteFailureSwallowed ==
    (last.op \in AnswerOps /\ disk # "ok") =>
        /\ error = "none"
        /\ pc = "events"
        /\ scene.cls = (IF last.op = "quiz" THEN "Quiz" ELSE "TypeMode")
        /\ ~scene.selecting
        /\ InTable(table, scene.kana)
        /\ progress[last.script][last.kana] =
               (IF last.correct THEN (IF OldMastery + 1 > 10 THEN 10 ELSE OldMastery + 1)
                ELSE (IF OldMastery - 1 < 1 THEN 1 ELSE OldMastery - 1))
        /\ progress.best_score[last.script] =
               (IF last.correct /\ last.streak0 + 1 > last.progress0.best_score[last.script]
                THEN last.streak0 + 1 ELSE last.progress0.best_score[last.script])
        /\ scene.streak = (IF last.correct THEN last.streak0 + 1 ELSE 0)
        /\ scene.score = scene.streak

\* C16 witness: a correct answer on a full disk changed the in-memory
\* progress and left an unparsable file, and the run goes on.
AnswerSurvivesFailedWrite ==
    /\ last.op \in AnswerOps
    /\ last.correct
    /\ disk = "full"
    /\ last.file0.parses
    /\ ~file.parses
    /\ progress # last.progress0
    /\ error = "none"
    /\ pc = "events"

\* C17: with an empty word list for the active script (the words file
\* absent, or the script without words), TypeMode started with WORD
\* selected has no word and no word romaji and raises nothing, and a
\* submission in that state leaves streak and score as they were and picks
\* no word.
NoWordsAvailable ==
    /\ (InWordMode /\ WordsGet(WORDS, script_name) = <<>>) =>
           /\ scene.word_list = <<>>
           /\ scene.word = <<>>
           /\ scene.word_romaji = <<>>
           /\ error = "none"
           /\ pc # "crashed"
    /\ last.op = "noword" =>
           /\ InWordMode
           /\ scene.streak = last.streak0
           /\ scene.score = scene.streak
           /\ scene.word = <<>>
           /\ error = "none"

\* C17 witness: a submission was made in word mode while the words file is
\* absent.
SubmittedWithoutWords ==
    /\ last.op = "noword"
    /\ InWordMode
    /\ WORDS = load_words(WordsFileAbsent)
    /\ scene.word_list = <<>>
    /\ scene.streak = 0

\* a practice scene as its constructor leaves it: group-selection
\* sub-state, default groups, nothing drawn, no streak, no score
FreshPractice(sc) ==
    /\ sc.selecting
    /\ ~sc.drawn
    /\ sc.cls \in {"Quiz", "TypeMode"} => (sc.streak = 0 /\ sc.score = 0)
    /\ sc.selected_groups =
           (IF sc.cls = "TypeMode" THEN <<TRUE, TRUE, TRUE, FALSE>>
            ELSE <<TRUE, TRUE, TRUE>>)
    /\ sc.cls = "TypeMode" => (sc.input = <<>> /\ ~sc.word_mode /\ sc.word = <<>>)
    /\ sc.cls = "Flashcards" => (sc.index = 0 /\ sc.kana_list = <<>>)

\* C18: the active scene is replaced as a whole: a step that leaves a
\* practice scene makes a fresh Menu the scene, a step that leaves the Menu
\* makes a practice scene in its initial state, whatever earlier scenes
\* held, and neither changes the progress or the selected script.
SceneReplaced ==
    [][/\ last'.op = "escape" =>
             (scene.cls = last'.from /\ scene.cls # "Menu" /\ scene'.cls = "Menu")
       /\ scene'.cls # scene.cls =>
          /\ progress' = progress
          /\ script_name' = script_name
          /\ table' = table
          /\ IF scene'.cls = "Menu"
             THEN scene' = [cls |-> "Menu", drawn |-> FALSE,
                            switch_label |-> IF script_name = "hiragana"
                                             THEN "Hiragana" ELSE "Katakana"]
             ELSE scene.cls = "Menu" /\ FreshPractice(scene')
          /\ scene'.cls = "Menu" => last'.op = "escape"]_vars

\* C18 witness: a practice scene just entered, after a scene in which a
\* streak was reached: it starts at streak 0 while the best score is kept.
FreshSceneAfterStreak ==
    /\ scene.cls \in {"Quiz", "TypeMode"}
    /\ FreshPractice(scene)
    /\ hist.peak[script_name] > 0
    /\ progress.best_score[script_name] >= hist.peak[script_name]
    /\ progress[script_name] # <<>>

SelectorsGivenCandidates ==
    /\ (scene.cls = "Quiz" /\ ~scene.selecting) =>
           _filtered_kana(scene.selected_groups, table) # <<>>
    /\ (scene.cls = "TypeMode" /\ ~scene.selecting /\ ~scene.word_mode) =>
           /\ scene.kana_list # <<>>
           /\ scene.kana # <<>>

\* the character subset a kana glyph is of: 1 basic, 2 voiced (dakuten and
\* handakuten), 3 combined (a glyph of two characters)
GroupOf(k) == IF Len(k) = 2 THEN 3 ELSE IF InList(k, DakuChars) THEN 2 ELSE 1

\* Quiz or kana-typing mode in its main sub-state
InKanaPractice ==
    /\ scene.cls \in {"Quiz", "TypeMode"}
    /\ ~scene.selecting
    /\ scene.cls = "TypeMode" => ~scene.word_mode

\* C21 (as claimed): in the main sub-state of Quiz and of kana-typing mode
\* at least one group is selected, and the current kana is not None, is a
\* key of the active script's table and is of one of the character subsets
\* (basic, voiced, combined) selected at START, after every pick.
KanaInSelectedGroups ==
    InKanaPractice =>
        /\ AnySelected(scene.selected_groups)
        /\ scene.kana # <<>>
        /\ InTable(table, scene.kana)
        /\ scene.selected_groups[GroupOf(scene.kana)]

\* C22: every question of a Quiz has four pairwise distinct romaji options,
\* exactly one of them the romaji of the displayed kana, at position
\* correct_idx; and wherever an answer button can be clicked, choose(i)
\* counts as correct (the streak grows) exactly when option i is that
\* romaji.
QuestionWellFormed ==
    scene.cls = "Quiz" =>
        LET romaji == Lookup(table, scene.kana)
            opts == scene.choices
        IN  /\ Len(opts) = 4
            /\ Cardinality({opts[i] : i \in 1..4}) = 4
            /\ Cardinality({i \in 1..4 : opts[i] = romaji}) = 1
            /\ scene.correct_idx \in 0..3
            /\ opts[scene.correct_idx + 1] = romaji
            /\ (InFrame /\ ~scene.selecting) =>
                   \A i \in 0..3 :
                       (choose(scene, progress, script_name, i).scene.streak
                            = scene.streak + 1) <=> (opts[i + 1] = romaji)

\* C22 witness: after an answer, the next question shows a kana whose
\* romaji another kana shares, with the correct option in the last place.
SharedRomajiAsked ==
    /\ last.op = "quiz"
    /\ scene.cls = "Quiz"
    /\ ~scene.selecting
    /\ \E i \in 1..Len(table) :
           table[i].kana # scene.kana /\ table[i].romaji = Lookup(table, scene.kana)
    /\ scene.correct_idx = 3
    /\ scene.choices[4] = Lookup(table, scene.kana)

\* the table is the one of the script named
TableOf(sn, t) ==
    \/ sn = "hiragana" /\ t = HIRAGANA
    \/ sn = "katakana" /\ t = KATAKANA

\* C23: the table is HIRAGANA exactly when script_name is "hiragana" and
\* KATAKANA otherwise; script and table change only in a step that handles
\* a click on the script label while Menu is the scene, never while
\* Flashcards, Quiz or TypeMode is; and a second toggle restores the script
\* and table the first one replaced.
ScriptToggledInMenuOnly ==
    [][/\ TableOf(script_name, table)
       /\ TableOf(script_name', table')
       /\ scene.cls # "Menu" => (script_name' = script_name /\ table' = table)
       /\ (script_name' # script_name \/ table' # table) =>
              (scene.cls = "Menu" /\ scene'.cls = "Menu" /\ last'.op = "toggle")
       /\ last'.op = "toggle" =>
              /\ last'.script0 = script_name
              /\ script_name' # script_name
              /\ toggle_script(script_name').script_name = script_name
              /\ toggle_script(script_name').table = table
       /\ (last.op = "toggle" /\ last'.op = "toggle") =>
              (script_name' = last.script0 /\ table' = last.table0)]_vars

\* C23 witness: a second click on the script label put hiragana back after
\* katakana had been selected.
ToggledBack ==
    /\ last.op = "toggle"
    /\ last.script0 = "katakana"
    /\ last.table0 = KATAKANA
    /\ script_name = "hiragana"
    /\ table = HIRAGANA
    /\ scene.cls = "Menu"
    /\ scene.switch_label = "Hiragana"

\* Flashcards in its main sub-state
InCards == scene.cls = "Flashcards" /\ ~scene.selecting

\* C24: in the Flashcards main sub-state the index is in
\* [0, len(kana_list)) before and after every key; RIGHT moves to the next
\* card and LEFT to the previous one, wrapping at the ends, each undoing
\* the other; RIGHT and LEFT hide the romaji and SPACE toggles it leaving
\* the index; and no Flashcards event changes the mastery maps or the best
\* scores.
CardsNavigation ==
    [][/\ scene.cls = "Flashcards" => progress' = progress
       /\ InCards => scene.index \in 0..(Len(scene.kana_list) - 1)
       /\ (InCards /\ scene'.cls = "Flashcards") =>
              LET n == Len(scene.kana_list)
                  i == scene.index
              IN  /\ last'.op = "key"
                  /\ ~scene'.selecting
                  /\ scene'.kana_list = scene.kana_list
                  /\ scene'.index \in 0..(n - 1)
                  /\ last'.key = "right" =>
                         /\ scene'.index = (IF i = n - 1 THEN 0 ELSE i + 1)
                         /\ ~scene'.show_romaji
                  /\ last'.key = "left" =>
                         /\ scene'.index = (IF i = 0 THEN n - 1 ELSE i - 1)
                         /\ ~scene'.show_romaji
                  /\ last'.key = "space" =>
                         /\ scene'.index = i
                         /\ scene'.show_romaji = ~scene.show_romaji
                  /\ (last.op = "key"
                          /\ {last.key, last'.key} = {"left", "right"}) =>
                         scene'.index = last.index0]_vars

\* C24 witness: LEFT on the first of several cards went to the last card,
\* the romaji hidden.
WrappedLeft ==
    /\ InCards
    /\ last.op = "key"
    /\ last.key = "left"
    /\ last.index0 = 0
    /\ Len(scene.kana_list) >= 3
    /\ scene.index = Len(scene.kana_list) - 1
    /\ ~scene.show_romaji

\* C25 (as claimed): `running` once false stays false; it is cleared by a
\* QUIT event in any scene and by ESC while Menu is the scene, and the main
\* loop stops on nothing else, so it is left only with `running` false; ESC
\* in any other scene makes Menu the scene, from where a second ESC stops
\* the loop.
LoopStopsOnlyOnRequest ==
    [][/\ ~running => ~running'
       /\ (running /\ ~running') => last'.op = "stop"
       /\ last'.op = "stop" =>
              /\ ~running'
              /\ last'.by \in {"quit", "escape"}
              /\ last'.by = "escape" => scene.cls = "Menu"
       /\ last'.op = "escape" => (scene.cls # "Menu" /\ scene'.cls = "Menu")
       /\ pc' # "events" => (~running' /\ error' = "none")]_vars

====
